---------------------------- MODULE Spec2Model ----------------------------
(***************************************************************************)
(* A model of the retrieval core of the support platform:                  *)
(*   src/rag/chunker.py    DocumentChunker                                 *)
(*   src/rag/retriever.py  RAGRetriever                                    *)
(*   src/rag/service.py    get_retriever, FallbackRetriever, the handlers  *)
(*                                                                         *)
(* Text.  A Python str is a sequence of character codes:                   *)
(*   1..26     the lowercase letters a..z                                  *)
(*   101..126  the uppercase letters A..Z                                  *)
(*   50 ' '    51 '\n'                                                     *)
(*   60 '.'    61 '!'    62 '?'    63 ':'    64 '['    65 ']'              *)
(*   59 '-'    66 '\''   67 '('    68 ')'    69 ','                        *)
(*   70..78    the lowercase non-ASCII letters z-acute, o-acute, a-ogonek, *)
(*             c-acute, e-ogonek, l-stroke, n-acute, s-acute, z-dot        *)
(*   80..89    the digits 0..9                                             *)
(*   90        the uppercase Z-acute                                       *)
(* A chunk is a record [text, metadata]; metadata is a record whose fields *)
(* are the dictionary's keys, so a missing key is a missing field.         *)
(***************************************************************************)
EXTENDS Integers, Sequences, FiniteSets, TLC

-----------------------------------------------------------------------------
(* Python str primitives *)

Whitespace == {50, 51}

SentenceEnd == {60, 61, 62}

IsSpace(c) == c \in Whitespace

\* str.lower() on one character
LowerChar(c) == IF c \in 101..126 THEN c - 100 ELSE c

\* str.lower()
Lower(s) == [i \in 1..Len(s) |-> LowerChar(s[i])]

\* `a in b` for two str: a occurs in b as a contiguous substring
Contains(b, a) ==
    \E i \in 0..(Len(b) - Len(a)) : SubSeq(b, i + 1, i + Len(a)) = a

RECURSIVE LStrip(_)
LStrip(s) ==
    IF s = <<>> THEN <<>>
    ELSE IF IsSpace(Head(s)) THEN LStrip(Tail(s)) ELSE s

RECURSIVE RStrip(_)
RStrip(s) ==
    IF s = <<>> THEN <<>>
    ELSE IF IsSpace(s[Len(s)]) THEN RStrip(SubSeq(s, 1, Len(s) - 1)) ELSE s

\* str.strip()
Strip(s) == RStrip(LStrip(s))

\* the first position >= i of s that holds no whitespace (Len(s)+1 if none)
RECURSIVE SkipSpace(_, _)
SkipSpace(s, i) ==
    IF i > Len(s) THEN i
    ELSE IF IsSpace(s[i]) THEN SkipSpace(s, i + 1) ELSE i

\* the first position >= i of s that holds whitespace (Len(s)+1 if none)
RECURSIVE SkipWord(_, _)
SkipWord(s, i) ==
    IF i > Len(s) THEN i
    ELSE IF IsSpace(s[i]) THEN i ELSE SkipWord(s, i + 1)

\* str.split(): the maximal runs of non-whitespace, in order
RECURSIVE SplitWords(_)
SplitWords(s) ==
    LET b == SkipSpace(s, 1) IN
    IF b > Len(s) THEN <<>>
    ELSE LET e == SkipWord(s, b)
         IN  <<SubSeq(s, b, e - 1)>> \o SplitWords(SubSeq(s, e, Len(s)))

\* re.split(r'(?<=[.!?])\s+', text) from position i, the current piece
\* starting at `start`: a maximal whitespace run that directly follows
\* '.', '!' or '?' is a separator; the pieces between separators are kept,
\* the empty last piece included
RECURSIVE SplitFrom(_, _, _)
SplitFrom(text, start, i) ==
    IF i > Len(text) THEN <<SubSeq(text, start, Len(text))>>
    ELSE IF i > 1 /\ text[i - 1] \in SentenceEnd /\ IsSpace(text[i])
         THEN LET j == SkipSpace(text, i)
              IN  <<SubSeq(text, start, i - 1)>> \o SplitFrom(text, j, j)
         ELSE SplitFrom(text, start, i + 1)

SplitSentences(text) == SplitFrom(text, 1, 1)

\* s[-n:] for n > 0
LastChars(s, n) ==
    IF Len(s) <= n THEN s ELSE SubSeq(s, Len(s) - n + 1, Len(s))

Space == <<50>>

-----------------------------------------------------------------------------
(* DocumentChunker (src/rag/chunker.py) *)

MkChunk(text, metadata) == [text |-> text, metadata |-> metadata]

\* chunker.py 63-72: the loop over the words of an over-long sentence;
\* yields the chunks it emitted and the temp_chunk it ends with
RECURSIVE PackWords(_, _, _, _)
PackWords(words, temp_chunk, chunk_size, metadata) ==
    IF words = <<>> THEN [chunks |-> <<>>, temp_chunk |-> temp_chunk]
    ELSE LET word == Head(words) IN
         IF Len(temp_chunk) + Len(word) + 1 <= chunk_size
         THEN PackWords(Tail(words), temp_chunk \o word \o Space,
                        chunk_size, metadata)
         ELSE LET rest == PackWords(Tail(words), word \o Space,
                                    chunk_size, metadata)
              IN  [chunks |->
                      (IF temp_chunk # <<>>
                       THEN <<MkChunk(Strip(temp_chunk), metadata)>>
                       ELSE <<>>) \o rest.chunks,
                   temp_chunk |-> rest.temp_chunk]

\* (mutation of SplitLongSentence: the last temp_chunk is not emitted)
SplitLongSentence_unflushed(sentence, chunk_size, metadata) ==
    PackWords(SplitWords(sentence), <<>>, chunk_size, metadata).chunks

\* chunker.py 60-77: an over-long sentence split by words
SplitLongSentence(sentence, chunk_size, metadata) ==
    LET r == PackWords(SplitWords(sentence), <<>>, chunk_size, metadata)
    IN  r.chunks \o (IF r.temp_chunk # <<>>
                     THEN <<MkChunk(Strip(r.temp_chunk), metadata)>>
                     ELSE <<>>)

\* chunker.py 46-100: one iteration of the loop over the sentences, on the
\* loop state st = [chunks, current_chunk, current_length]
SentenceStep(st, sentence, chunk_size, chunk_overlap, metadata) ==
    LET sentence_length == Len(sentence) IN
    IF sentence_length > chunk_size
    THEN [chunks |-> st.chunks
                     \o (IF st.current_chunk # <<>>
                         THEN <<MkChunk(Strip(st.current_chunk), metadata)>>
                         ELSE <<>>)
                     \o SplitLongSentence(sentence, chunk_size, metadata),
          current_chunk |-> IF st.current_chunk # <<>> THEN <<>>
                            ELSE st.current_chunk,
          current_length |-> IF st.current_chunk # <<>> THEN 0
                             ELSE st.current_length]
    ELSE IF st.current_length + sentence_length <= chunk_size
    THEN [chunks |-> st.chunks,
          current_chunk |-> st.current_chunk \o sentence \o Space,
          current_length |-> st.current_length + sentence_length + 1]
    ELSE LET saved == IF st.current_chunk # <<>>
                      THEN <<MkChunk(Strip(st.current_chunk), metadata)>>
                      ELSE <<>>
         IN  IF chunk_overlap > 0 /\ st.current_chunk # <<>>
             THEN LET overlap_text == LastChars(st.current_chunk, chunk_overlap)
                  IN  [chunks |-> st.chunks \o saved,
                       current_chunk |-> overlap_text \o sentence \o Space,
                       current_length |->
                           Len(overlap_text) + sentence_length + 1]
             ELSE [chunks |-> st.chunks \o saved,
                   current_chunk |-> sentence \o Space,
                   current_length |-> sentence_length + 1]

RECURSIVE SentenceLoop(_, _, _, _, _)
SentenceLoop(st, sentences, chunk_size, chunk_overlap, metadata) ==
    IF sentences = <<>> THEN st
    ELSE SentenceLoop(
             SentenceStep(st, Head(sentences), chunk_size, chunk_overlap,
                          metadata),
             Tail(sentences), chunk_size, chunk_overlap, metadata)

\* DocumentChunker.chunk_text, of a chunker built with (chunk_size,
\* chunk_overlap)
chunk_text(text, metadata, chunk_size, chunk_overlap) ==
    LET st == SentenceLoop([chunks |-> <<>>, current_chunk |-> <<>>,
                            current_length |-> 0],
                           SplitSentences(text), chunk_size, chunk_overlap,
                           metadata)
    IN  st.chunks \o (IF Strip(st.current_chunk) # <<>>
                      THEN <<MkChunk(Strip(st.current_chunk), metadata)>>
                      ELSE <<>>)

(* String literals of the chunker *)
Str_FAQ == <<106, 101, 117>>
Str_Regulations == <<118, 5, 7, 21, 12, 1, 20, 9, 15, 14, 19>>
Str_SupportDialogs ==
    <<119, 21, 16, 16, 15, 18, 20, 50, 104, 9, 1, 12, 15, 7, 19>>
Str_general == <<7, 5, 14, 5, 18, 1, 12>>
Str_Pytanie == <<116, 25, 20, 1, 14, 9, 5, 63, 50>>
Str_Odpowiedz == <<51, 51, 115, 4, 16, 15, 23, 9, 5, 4, 70, 63, 50>>
Str_Klient == <<111, 12, 9, 5, 14, 20, 63, 50>>
Str_Asystent == <<51, 51, 101, 19, 25, 19, 20, 5, 14, 20, 63, 50>>

\* dict.get(key, default) on a JSON record
Get(rec, key, default) == IF key \in DOMAIN rec THEN rec[key] ELSE default

\* DocumentChunker.chunk_faq on the parsed list data.get('faq', [])
chunk_faq(faq) ==
    [i \in 1..Len(faq) |->
        MkChunk(Str_Pytanie \o faq[i].question \o Str_Odpowiedz
                    \o faq[i].answer,
                [source |-> Str_FAQ,
                 category |-> Get(faq[i], "category", Str_general),
                 type |-> "qa_pair"])]

\* chunker.py 168-169: the section header put before a chunk's text
WithHeader(section, chunk) ==
    [chunk EXCEPT !.text = <<64>> \o section \o <<65, 51, 51>> \o @]

\* DocumentChunker.chunk_regulations on data.get('regulations', [])
RECURSIVE chunk_regulations(_, _, _)
chunk_regulations(regulations, chunk_size, chunk_overlap) ==
    IF regulations = <<>> THEN <<>>
    ELSE LET item == Head(regulations)
             content_chunks ==
                 chunk_text(item.content,
                            [source |-> Str_Regulations,
                             section |-> item.section,
                             type |-> "regulation"],
                            chunk_size, chunk_overlap)
         IN  [i \in 1..Len(content_chunks) |->
                 WithHeader(item.section, content_chunks[i])]
             \o chunk_regulations(Tail(regulations), chunk_size,
                                  chunk_overlap)

\* DocumentChunker.chunk_dialogs on data.get('dialogs', [])
chunk_dialogs(dialogs) ==
    [i \in 1..Len(dialogs) |->
        MkChunk(Str_Klient \o dialogs[i].customer_query \o Str_Asystent
                    \o dialogs[i].ai_response,
                [source |-> Str_SupportDialogs,
                 category |-> Get(dialogs[i], "category", Str_general),
                 confidence |-> Get(dialogs[i], "confidence", 0),
                 type |-> "dialog"])]

-----------------------------------------------------------------------------
(* RAGRetriever (src/rag/retriever.py): values *)

\* Optional[str]: None is no str (a str holds codes >= 0)
None == <<-1>>

\* a file of the file system: absent, or present with its content
NoFile == [exists |-> FALSE, data |-> <<>>]
File(data) == [exists |-> TRUE, data |-> data]

\* self.index: None, or a faiss.IndexFlatL2 holding its vectors in the
\* order they were added
NoneIndex == [isNone |-> TRUE, vectors |-> <<>>]
IndexFlatL2(vectors) == [isNone |-> FALSE, vectors |-> vectors]

\* retriever.py 64: DocumentChunker(chunk_size=500, chunk_overlap=50)
chunk_size == 500
chunk_overlap == 50

RECURSIVE SumCodes(_)
SumCodes(s) == IF s = <<>> THEN 0 ELSE Head(s) + SumCodes(Tail(s))

\* the embedding model: a deterministic map from a text to a vector (here
\* of dimension 1)
Embed(text) == SumCodes(text)

\* self.encoder.encode(texts): one vector per text, in the order of texts
encode(texts) == [i \in 1..Len(texts) |-> Embed(texts[i])]

\* retriever.py 98: the texts of a chunk sequence
Texts(cs) == [i \in 1..Len(cs) |-> cs[i].text]

\* IndexFlatL2's metric: the squared Euclidean distance
L2(u, v) == (u - v) * (u - v)

\* the distance faiss reports with the label -1 of a missing neighbour
PadDistance == 2^30

\* faiss.IndexFlatL2.search(query, k) after `taken` were reported, m to go:
\* the nearest vectors first (equal distances in insertion order), then
\* label -1 once the index holds no more vectors.  Labels count from 0.
RECURSIVE SearchFrom(_, _, _, _)
SearchFrom(vectors, query, taken, m) ==
    LET left == (1..Len(vectors)) \ taken IN
    IF m <= 0 THEN <<>>
    ELSE IF left = {}
    THEN <<[idx |-> -1, dist |-> PadDistance]>>
         \o SearchFrom(vectors, query, taken, m - 1)
    ELSE LET best == CHOOSE i \in left : \A j \in left :
                         \/ L2(vectors[i], query) < L2(vectors[j], query)
                         \/ /\ L2(vectors[i], query) = L2(vectors[j], query)
                            /\ i <= j
         IN  <<[idx |-> best - 1, dist |-> L2(vectors[best], query)]>>
             \o SearchFrom(vectors, query, taken \cup {best}, m - 1)

search(idx, query, k) == SearchFrom(idx.vectors, query, {}, k)

\* retriever.py 66-88: the chunks of the files that exist under data_dir
CollectChunks(data_dir) ==
    (IF data_dir.faq.exists THEN chunk_faq(data_dir.faq.data) ELSE <<>>)
    \o (IF data_dir.regulations.exists
        THEN chunk_regulations(data_dir.regulations.data, chunk_size,
                               chunk_overlap)
        ELSE <<>>)
    \o (IF data_dir.dialogs.exists
        THEN chunk_dialogs(data_dir.dialogs.data) ELSE <<>>)

\* `if filter_category:` -- None and "" are false
Truthy(s) == s # None /\ s # <<>>

\* retriever.py 164
SearchK(top_k, filter_category) ==
    IF Truthy(filter_category) THEN top_k * 3 ELSE top_k

\* retriever.py 179-181: the chunk passes the category filter
PassesFilter(chunk, filter_category) ==
    LET chunk_category == Get(Get(chunk, "metadata", <<>>), "category", <<>>)
    IN  Contains(Lower(chunk_category), Lower(filter_category))

\* (mutation of Enough: the loop is left one result late)
Enough_late(results, top_k) == Len(results) > top_k

\* retriever.py 185: enough results, leave the loop
Enough(results, top_k) == Len(results) >= top_k

\* retriever.py 172-186: the loop over the hits, from hit i on.  A label
\* idx < len(chunks) indexes the list as Python does: -1 is the last chunk,
\* and raises IndexError on an empty list.
RECURSIVE RetrieveLoop(_, _, _, _, _, _)
RetrieveLoop(hits, i, chunks_read, top_k, filter_category, results) ==
    IF i > Len(hits) THEN [status |-> "ok", results |-> results]
    ELSE LET idx == hits[i].idx IN
         IF idx < Len(chunks_read)
         THEN IF idx < 0 /\ Len(chunks_read) + idx < 0
              THEN [status |-> "IndexError", results |-> <<>>]
              ELSE LET pos == IF idx < 0 THEN Len(chunks_read) + idx + 1
                              ELSE idx + 1
                       chunk == [text |-> chunks_read[pos].text,
                                 metadata |-> chunks_read[pos].metadata,
                                 score |-> hits[i].dist]
                   IN  IF Truthy(filter_category)
                          /\ ~PassesFilter(chunk, filter_category)
                       THEN RetrieveLoop(hits, i + 1, chunks_read, top_k,
                                         filter_category, results)
                       ELSE IF Enough(Append(results, chunk), top_k)
                       THEN [status |-> "ok",
                             results |-> Append(results, chunk)]
                       ELSE RetrieveLoop(hits, i + 1, chunks_read, top_k,
                                         filter_category,
                                         Append(results, chunk))
         ELSE RetrieveLoop(hits, i + 1, chunks_read, top_k, filter_category,
                           results)

\* retriever.py 139-188: retrieve on a retriever holding idx and cs
retrieve(idx, cs, query, top_k, filter_category) ==
    IF idx.isNone THEN [status |-> "IndexNotBuilt", results |-> <<>>]
    ELSE RetrieveLoop(search(idx, Embed(query),
                             SearchK(top_k, filter_category)),
                      1, cs, top_k, filter_category, <<>>)

\* "Źródło" (Ź is 90) and "Unknown"
Str_Zrodlo == <<90, 18, 71, 4, 75, 15>>
Str_Unknown == <<121, 14, 11, 14, 15, 23, 14>>

\* str(n) of a natural number, in decimal digits
RECURSIVE Str(_)
Str(n) == IF n < 10 THEN <<80 + n>> ELSE Str(n \div 10) \o <<80 + (n % 10)>>

\* "\n".join(parts)
RECURSIVE JoinLines(_)
JoinLines(parts) ==
    IF parts = <<>> THEN <<>>
    ELSE IF Len(parts) = 1 THEN Head(parts)
    ELSE Head(parts) \o <<51>> \o JoinLines(Tail(parts))

\* (mutation of ContextPart: the blocks are numbered from 0)
ContextPart_from0(i, result) ==
    LET text == result.text
        metadata == Get(result, "metadata", <<>>)
        source == Get(metadata, "source", Str_Unknown)
    IN  <<64>> \o Str_Zrodlo \o <<50>> \o Str(i - 1) \o <<63, 50>> \o source
        \o <<65, 51>> \o text \o <<51>>

\* retriever.py 203-207: f"[Źródło {i}: {source}]\n{text}\n"
ContextPart(i, result) ==
    LET text == result.text
        metadata == Get(result, "metadata", <<>>)
        source == Get(metadata, "source", Str_Unknown)
    IN  <<64>> \o Str_Zrodlo \o <<50>> \o Str(i) \o <<63, 50>> \o source
        \o <<65, 51>> \o text \o <<51>>

\* retriever.py 190-209
format_context(results) ==
    JoinLines([i \in 1..Len(results) |-> ContextPart(i, results[i])])

\* retriever.py 226-231: f"{source}: {section}" if section else source
SourceId(result) ==
    LET metadata == Get(result, "metadata", <<>>)
        source == Get(metadata, "source", Str_Unknown)
        section == Get(metadata, "section", None)
    IN  IF Truthy(section) THEN source \o <<63, 50>> \o section ELSE source

\* (mutation of SourcesLoop: every identifier is appended)
RECURSIVE SourcesLoop_all(_, _, _)
SourcesLoop_all(results, sources, seen) ==
    IF results = <<>> THEN sources
    ELSE SourcesLoop_all(Tail(results),
                         Append(sources, SourceId(Head(results))), seen)

\* retriever.py 225-234: the loop over the results
RECURSIVE SourcesLoop(_, _, _)
SourcesLoop(results, sources, seen) ==
    IF results = <<>> THEN sources
    ELSE LET source_id == SourceId(Head(results)) IN
         IF source_id \notin seen
         THEN SourcesLoop(Tail(results), Append(sources, source_id),
                          seen \cup {source_id})
         ELSE SourcesLoop(Tail(results), sources, seen)

\* retriever.py 211-236
get_sources(results) == SourcesLoop(results, <<>>, {})

-----------------------------------------------------------------------------
(* Inputs *)

MaxTopK == 2

\* data directories: no file at all; an empty FAQ list and a regulation
\* section of blank content; one FAQ entry; a FAQ entry, a regulation
\* section and two dialogs (one without category and confidence)
DirNone == [faq |-> NoFile, regulations |-> NoFile, dialogs |-> NoFile]
DirBlank ==
    [faq |-> File(<<>>),
     regulations |-> File(<<[section |-> <<1>>, content |-> <<50>>]>>),
     dialogs |-> NoFile]
DirSmall ==
    [faq |-> File(<<[question |-> <<1>>, answer |-> <<1>>,
                     category |-> <<101, 2>>]>>),
     regulations |-> NoFile, dialogs |-> NoFile]
DirBig ==
    [faq |-> File(<<[question |-> <<1>>, answer |-> <<2>>,
                     category |-> <<2>>]>>),
     regulations |-> File(<<[section |-> <<1>>,
                             content |-> <<1, 60, 50, 2, 60>>]>>),
     dialogs |-> File(<<[customer_query |-> <<1>>, ai_response |-> <<2>>,
                         category |-> <<101>>, confidence |-> 1],
                        [customer_query |-> <<2>>, ai_response |-> <<2>>]>>)]
DataDirs == {DirNone, DirBlank, DirSmall, DirBig}

Queries == {<<1>>, <<126, 126, 126, 126, 126, 126, 126>>}
TopKs == 1..MaxTopK
Filters == {None, <<>>, <<1>>, <<102>>}

-----------------------------------------------------------------------------
(* State *)

VARIABLES
    index,       \* self.index
    chunks,      \* self.chunks
    diskIndex,   \* the file at index_path
    diskChunks,  \* the file at chunks_path
    wr,          \* the thread calling build_index / save_index / load_index
    rd,          \* the thread calling retrieve
    everBuilt,   \* history: a build_index or load_index call has returned
                 \*          without raising
    paired,      \* history: index and chunks were set by one finished write
    rdPaired,    \* history: the index retrieve searched and the chunks it
                 \*          reads make such a pair
    retriever,   \* service.py's global `retriever`: "None", or
                 \*          "RAGRetriever" (the object of index and chunks)
    resp,        \* the service's last response, with what get_retriever
                 \*          did to give it
    ck           \* a DocumentChunker, the text given to its chunk_text
                 \*          and the chunks returned

vars == <<index, chunks, diskIndex, diskChunks, wr, rd, everBuilt, paired,
          rdPaired, retriever, resp, ck>>

Snapshot == [index |-> index, chunks |-> chunks,
             diskIndex |-> diskIndex, diskChunks |-> diskChunks,
             paired |-> paired]

WrIdle == [pc |-> "idle", op |-> "none", data_dir |-> DirNone,
           pre |-> [index |-> NoneIndex, chunks |-> <<>>,
                    diskIndex |-> NoFile, diskChunks |-> NoFile,
                    paired |-> TRUE],
           result |-> "none"]

\* did: which of format_context and get_sources were called on
\* out.results, giving context and sources
RdIdle == [pc |-> "idle", query |-> <<>>, top_k |-> 1,
           filter_category |-> None, hits |-> <<>>,
           out |-> [status |-> "none", results |-> <<>>],
           did |-> {}, context |-> <<>>, sources |-> <<>>]

\* no request was answered yet
NoResp == [kind |-> "none", status |-> 0, mode |-> "none", how |-> "none",
           query |-> <<>>, top_k |-> 1, filter_category |-> None,
           chunks |-> <<>>, context |-> <<>>, sources |-> <<>>]

\* retriever.py 64: the chunker build_index makes, given no text yet
CkIdle == [pc |-> "idle", op |-> "none", chunk_size |-> chunk_size,
           chunk_overlap |-> chunk_overlap, text |-> <<>>, docs |-> <<>>,
           chunks |-> <<>>]

\* retriever.py 46-48, with no file at either path (51 is false); the
\* service's global is None (service.py 40)
Init ==
    /\ retriever = "None"
    /\ resp = NoResp
    /\ ck = CkIdle
    /\ index = NoneIndex
    /\ chunks = <<>>
    /\ diskIndex = NoFile
    /\ diskChunks = NoFile
    /\ wr = WrIdle
    /\ rd = RdIdle
    /\ everBuilt = FALSE
    /\ paired = TRUE
    /\ rdPaired = TRUE

\* the writer's call returns (result "ok") or raises (any other result)
Return(result) == [wr EXCEPT !.pc = "idle", !.result = result]

\* a call that starts drops the record of the other thread's last call, if
\* that call has returned
RdAtCall == IF rd.pc = "idle" THEN RdIdle ELSE rd
WrAtCall == IF wr.pc = "idle" THEN WrIdle ELSE wr

\* rdPaired after a write to self.index or self.chunks: such a write between
\* retrieve's search and its loop breaks the pair retrieve reads
RdPairedAfterWrite == IF rd.pc = "r_loop" THEN FALSE ELSE rdPaired

-----------------------------------------------------------------------------
(* build_index, save_index, load_index: one action per step that reads or  *)
(* writes the retriever or the files, each external call raising or not    *)

\* (mutation of build_index_chunks: self.chunks is assigned before the
\* check for an empty corpus)
build_index_chunks_assign_first(data_dir) ==
    /\ wr.pc = "idle"
    /\ LET all_chunks == CollectChunks(data_dir)
           call == [pc |-> "b_encode", op |-> "build_index",
                    data_dir |-> data_dir, pre |-> Snapshot,
                    result |-> "none"]
       IN  /\ chunks' = all_chunks
           /\ paired' = FALSE
           /\ rdPaired' = RdPairedAfterWrite
           /\ wr' = IF all_chunks = <<>>
                    THEN [call EXCEPT !.pc = "idle", !.result = "EmptyCorpus"]
                    ELSE call
    /\ rd' = RdAtCall
    /\ UNCHANGED <<index, diskIndex, diskChunks, everBuilt>>
    /\ UNCHANGED <<retriever, resp, ck>>

\* retriever.py 54-94: chunk the documents; ValueError when there is no
\* chunk, else self.chunks = all_chunks
build_index_chunks(data_dir) ==
    /\ wr.pc = "idle"
    /\ LET all_chunks == CollectChunks(data_dir)
           call == [pc |-> "b_encode", op |-> "build_index",
                    data_dir |-> data_dir, pre |-> Snapshot,
                    result |-> "none"]
       IN  IF all_chunks = <<>>
           THEN /\ wr' = [call EXCEPT !.pc = "idle", !.result = "EmptyCorpus"]
                /\ UNCHANGED <<chunks, paired, rdPaired>>
           ELSE /\ wr' = call
                /\ chunks' = all_chunks
                /\ paired' = FALSE
                /\ rdPaired' = RdPairedAfterWrite
    /\ rd' = RdAtCall
    /\ UNCHANGED <<index, diskIndex, diskChunks, everBuilt>>
    /\ UNCHANGED <<retriever, resp, ck>>

\* retriever.py 96-103: self.encoder.encode(texts)
build_index_encode ==
    /\ wr.pc = "b_encode"
    /\ \/ wr' = Return("encode_error")
       \/ wr' = [wr EXCEPT !.pc = "b_new"]
    /\ UNCHANGED <<index, chunks, diskIndex, diskChunks, rd, everBuilt,
                   paired, rdPaired>>
    /\ UNCHANGED <<retriever, resp, ck>>

\* (mutation of build_index_new: an index that exists is kept and added to)
build_index_new_keep ==
    /\ wr.pc = "b_new"
    /\ \/ /\ wr' = Return("index_error")
          /\ UNCHANGED <<index, paired, rdPaired>>
       \/ /\ wr' = [wr EXCEPT !.pc = "b_add"]
          /\ index' = IF index.isNone THEN IndexFlatL2(<<>>) ELSE index
          /\ paired' = FALSE
          /\ rdPaired' = RdPairedAfterWrite
    /\ UNCHANGED <<chunks, diskIndex, diskChunks, rd, everBuilt>>
    /\ UNCHANGED <<retriever, resp, ck>>

\* retriever.py 107: self.index = faiss.IndexFlatL2(self.embedding_dim)
build_index_new ==
    /\ wr.pc = "b_new"
    /\ \/ /\ wr' = Return("index_error")
          /\ UNCHANGED <<index, paired, rdPaired>>
       \/ /\ wr' = [wr EXCEPT !.pc = "b_add"]
          /\ index' = IndexFlatL2(<<>>)
          /\ paired' = FALSE
          /\ rdPaired' = RdPairedAfterWrite
    /\ UNCHANGED <<chunks, diskIndex, diskChunks, rd, everBuilt>>
    /\ UNCHANGED <<retriever, resp, ck>>

\* retriever.py 108: self.index.add(embeddings), the embeddings those of
\* the texts of self.chunks (98)
build_index_add ==
    /\ wr.pc = "b_add"
    /\ \/ /\ wr' = Return("add_error")
          /\ UNCHANGED <<index, paired, rdPaired>>
       \/ /\ wr' = [wr EXCEPT !.pc = "s_index"]
          /\ index' = IndexFlatL2(index.vectors
                          \o encode([i \in 1..Len(chunks) |-> chunks[i].text]))
          /\ paired' = TRUE
          /\ rdPaired' = RdPairedAfterWrite
    /\ UNCHANGED <<chunks, diskIndex, diskChunks, rd, everBuilt>>
    /\ UNCHANGED <<retriever, resp, ck>>

\* a call of save_index
save_index_call ==
    /\ wr.pc = "idle"
    /\ wr' = [pc |-> "s_index", op |-> "save_index", data_dir |-> DirNone,
              pre |-> Snapshot, result |-> "none"]
    /\ rd' = RdAtCall
    /\ UNCHANGED <<index, chunks, diskIndex, diskChunks, everBuilt, paired,
                   rdPaired>>
    /\ UNCHANGED <<retriever, resp, ck>>

\* retriever.py 117-121: os.makedirs and faiss.write_index(self.index, ...),
\* which raises on None
save_index_write_index ==
    /\ wr.pc = "s_index"
    /\ \/ /\ wr' = Return("write_index_error")
          /\ UNCHANGED diskIndex
       \/ /\ ~index.isNone
          /\ wr' = [wr EXCEPT !.pc = "s_chunks"]
          /\ diskIndex' = File(index.vectors)
    /\ UNCHANGED <<index, chunks, diskChunks, rd, everBuilt, paired,
                   rdPaired>>
    /\ UNCHANGED <<retriever, resp, ck>>

\* (mutation of save_index_write_chunks: the last chunk is not written)
save_index_write_chunks_short ==
    /\ wr.pc = "s_chunks"
    /\ \/ /\ wr' = Return("write_chunks_error")
          /\ UNCHANGED <<diskChunks, everBuilt>>
       \/ /\ wr' = Return("ok")
          /\ diskChunks' = File(SubSeq(chunks, 1, Len(chunks) - 1))
          /\ everBuilt' = (everBuilt \/ wr.op = "build_index")
    /\ UNCHANGED <<index, chunks, diskIndex, rd, paired, rdPaired>>
    /\ UNCHANGED <<retriever, resp, ck>>

\* retriever.py 124-126: open(self.chunks_path, 'wb') and pickle.dump; the
\* call that returns is a build_index (113) or a save_index
save_index_write_chunks ==
    /\ wr.pc = "s_chunks"
    /\ \/ /\ wr' = Return("write_chunks_error")
          /\ UNCHANGED <<diskChunks, everBuilt>>
       \/ /\ wr' = Return("ok")
          /\ diskChunks' = File(chunks)
          /\ everBuilt' = (everBuilt \/ wr.op = "build_index")
    /\ UNCHANGED <<index, chunks, diskIndex, rd, paired, rdPaired>>
    /\ UNCHANGED <<retriever, resp, ck>>

\* a call of load_index
load_index_call ==
    /\ wr.pc = "idle"
    /\ wr' = [pc |-> "l_index", op |-> "load_index", data_dir |-> DirNone,
              pre |-> Snapshot, result |-> "none"]
    /\ rd' = RdAtCall
    /\ UNCHANGED <<index, chunks, diskIndex, diskChunks, everBuilt, paired,
                   rdPaired>>
    /\ UNCHANGED <<retriever, resp, ck>>

\* retriever.py 131: self.index = faiss.read_index(self.index_path), which
\* raises when there is no file
load_index_read_index ==
    /\ wr.pc = "l_index"
    /\ \/ /\ wr' = Return("read_index_error")
          /\ UNCHANGED <<index, paired, rdPaired>>
       \/ /\ diskIndex.exists
          /\ wr' = [wr EXCEPT !.pc = "l_chunks"]
          /\ index' = IndexFlatL2(diskIndex.data)
          /\ paired' = FALSE
          /\ rdPaired' = RdPairedAfterWrite
    /\ UNCHANGED <<chunks, diskIndex, diskChunks, rd, everBuilt>>
    /\ UNCHANGED <<retriever, resp, ck>>

\* retriever.py 135-137: self.chunks = pickle.load(f), open raising when
\* there is no file
load_index_read_chunks ==
    /\ wr.pc = "l_chunks"
    /\ \/ /\ wr' = Return("read_chunks_error")
          /\ UNCHANGED <<chunks, everBuilt, paired, rdPaired>>
       \/ /\ diskChunks.exists
          /\ wr' = Return("ok")
          /\ chunks' = diskChunks.data
          /\ everBuilt' = TRUE
          /\ paired' = TRUE
          /\ rdPaired' = RdPairedAfterWrite
    /\ UNCHANGED <<index, diskIndex, diskChunks, rd>>
    /\ UNCHANGED <<retriever, resp, ck>>

\* (mutation of RAGRetriever_init: the constructor loads whichever artifact
\* exists)
RAGRetriever_init_load_any ==
    /\ wr.pc = "idle"
    /\ rd.pc = "idle"
    /\ wr' = [pc |-> "idle", op |-> "init", data_dir |-> DirNone,
              pre |-> Snapshot, result |-> "ok"]
    /\ index' = IF diskIndex.exists THEN IndexFlatL2(diskIndex.data)
                ELSE NoneIndex
    /\ chunks' = diskChunks.data
    /\ everBuilt' = (diskIndex.exists /\ diskChunks.exists)
    /\ paired' = TRUE
    /\ rd' = RdIdle
    /\ UNCHANGED <<diskIndex, diskChunks, rdPaired>>
    /\ UNCHANGED <<retriever, resp, ck>>

\* retriever.py 23-52: RAGRetriever(...) with the same paths, the new object
\* taking the place of the old one when the constructor returns.  The
\* constructor raises when the embedding model cannot be loaded (43) or when
\* the load_index it calls if both files exist (51-52) raises; the object
\* in use is replaced between calls only.
RAGRetriever_init ==
    /\ wr.pc = "idle"
    /\ rd.pc = "idle"
    /\ LET call == [pc |-> "idle", op |-> "init", data_dir |-> DirNone,
                    pre |-> Snapshot, result |-> "ok"]
       IN  \/ /\ wr' = [call EXCEPT !.result = "encoder_error"]
              /\ UNCHANGED <<index, chunks, everBuilt, paired>>
           \/ /\ diskIndex.exists /\ diskChunks.exists
              /\ \/ /\ wr' = [call EXCEPT !.result = "load_error"]
                    /\ UNCHANGED <<index, chunks, everBuilt, paired>>
                 \/ /\ wr' = call
                    /\ index' = IndexFlatL2(diskIndex.data)
                    /\ chunks' = diskChunks.data
                    /\ everBuilt' = TRUE
                    /\ paired' = TRUE
           \/ /\ ~(diskIndex.exists /\ diskChunks.exists)
              /\ wr' = call
              /\ index' = NoneIndex
              /\ chunks' = <<>>
              /\ everBuilt' = FALSE
              /\ paired' = TRUE
    /\ rd' = RdIdle
    /\ UNCHANGED <<diskIndex, diskChunks, rdPaired>>
    /\ UNCHANGED <<retriever, resp, ck>>

-----------------------------------------------------------------------------
(* retrieve *)

\* retriever.py 156-160: ValueError when self.index is None
retrieve_call(query, top_k, filter_category) ==
    /\ rd.pc = "idle"
    /\ LET call == [pc |-> "r_search", query |-> query, top_k |-> top_k,
                    filter_category |-> filter_category, hits |-> <<>>,
                    out |-> [status |-> "none", results |-> <<>>],
                    did |-> {}, context |-> <<>>, sources |-> <<>>]
       IN  IF index.isNone
           THEN rd' = [call EXCEPT !.pc = "idle",
                                   !.out.status = "IndexNotBuilt"]
           ELSE rd' = call
    /\ wr' = WrAtCall
    /\ UNCHANGED <<index, chunks, diskIndex, diskChunks, everBuilt, paired,
                   rdPaired>>
    /\ UNCHANGED <<retriever, resp, ck>>

\* retriever.py 164-168: self.index.search(query_embedding, search_k)
retrieve_search ==
    /\ rd.pc = "r_search"
    /\ rd' = [rd EXCEPT !.pc = "r_loop",
                        !.hits = search(index, Embed(rd.query),
                                        SearchK(rd.top_k, rd.filter_category))]
    /\ rdPaired' = paired
    /\ UNCHANGED <<index, chunks, diskIndex, diskChunks, wr, everBuilt,
                   paired>>
    /\ UNCHANGED <<retriever, resp, ck>>

\* (mutation of retrieve_loop: the scores are written to self.chunks)
retrieve_loop_scores_stored ==
    /\ rd.pc = "r_loop"
    /\ rd' = [rd EXCEPT !.pc = "idle",
                        !.out = RetrieveLoop(rd.hits, 1, chunks, rd.top_k,
                                             rd.filter_category, <<>>)]
    /\ chunks' = [i \in 1..Len(chunks) |->
                     [text |-> chunks[i].text,
                      metadata |-> chunks[i].metadata, score |-> 0]]
    /\ UNCHANGED <<index, diskIndex, diskChunks, wr, everBuilt,
                   paired, rdPaired>>
    /\ UNCHANGED <<retriever, resp, ck>>

\* retriever.py 171-188: the loop over the hits, reading self.chunks
retrieve_loop ==
    /\ rd.pc = "r_loop"
    /\ rd' = [rd EXCEPT !.pc = "idle",
                        !.out = RetrieveLoop(rd.hits, 1, chunks, rd.top_k,
                                             rd.filter_category, <<>>)]
    /\ UNCHANGED <<index, chunks, diskIndex, diskChunks, wr, everBuilt,
                   paired, rdPaired>>
    /\ UNCHANGED <<retriever, resp, ck>>

-----------------------------------------------------------------------------
(* format_context, get_sources: called on the results retrieve returned *)

\* retriever.py 190-209
format_context_call ==
    /\ rd.pc = "idle"
    /\ rd.out.status = "ok"
    /\ "format_context" \notin rd.did
    /\ rd' = [rd EXCEPT !.did = @ \cup {"format_context"},
                        !.context = format_context(rd.out.results)]
    /\ UNCHANGED <<index, chunks, diskIndex, diskChunks, wr, everBuilt,
                   paired, rdPaired>>
    /\ UNCHANGED <<retriever, resp, ck>>

\* retriever.py 211-236
get_sources_call ==
    /\ rd.pc = "idle"
    /\ rd.out.status = "ok"
    /\ "get_sources" \notin rd.did
    /\ rd' = [rd EXCEPT !.did = @ \cup {"get_sources"},
                        !.sources = get_sources(rd.out.results)]
    /\ UNCHANGED <<index, chunks, diskIndex, diskChunks, wr, everBuilt,
                   paired, rdPaired>>
    /\ UNCHANGED <<retriever, resp, ck>>

-----------------------------------------------------------------------------
(* Specifications *)

\* the calls one after another: no call starts while another runs
Next ==
    \/ \E data_dir \in DataDirs : rd.pc = "idle" /\ build_index_chunks(data_dir)
    \/ rd.pc = "idle" /\ build_index_encode
    \/ rd.pc = "idle" /\ build_index_new
    \/ rd.pc = "idle" /\ build_index_add
    \/ rd.pc = "idle" /\ save_index_call
    \/ rd.pc = "idle" /\ save_index_write_index
    \/ rd.pc = "idle" /\ save_index_write_chunks
    \/ rd.pc = "idle" /\ load_index_call
    \/ rd.pc = "idle" /\ load_index_read_index
    \/ rd.pc = "idle" /\ load_index_read_chunks
    \/ RAGRetriever_init
    \/ \E query \in Queries, top_k \in TopKs, filter_category \in Filters :
           wr.pc = "idle" /\ retrieve_call(query, top_k, filter_category)
    \/ wr.pc = "idle" /\ retrieve_search
    \/ wr.pc = "idle" /\ retrieve_loop
    \/ wr.pc = "idle" /\ format_context_call
    \/ wr.pc = "idle" /\ get_sources_call

Spec == Init /\ [][Next]_vars

\* one thread writing and one thread reading the one retriever they share
\* (never replaced by a new object), their steps interleaved
NextConc ==
    \/ \E data_dir \in DataDirs : build_index_chunks(data_dir)
    \/ build_index_encode
    \/ build_index_new
    \/ build_index_add
    \/ save_index_call
    \/ save_index_write_index
    \/ save_index_write_chunks
    \/ load_index_call
    \/ load_index_read_index
    \/ load_index_read_chunks
    \/ \E query \in Queries, top_k \in TopKs, filter_category \in Filters :
           retrieve_call(query, top_k, filter_category)
    \/ retrieve_search
    \/ retrieve_loop

SpecConc == Init /\ [][NextConc]_vars

-----------------------------------------------------------------------------
(* FallbackRetriever (src/rag/service.py) *)

\* service.py 79-115: the static knowledge base
knowledge_base ==
    <<
    [text |->
        <<113, 1, 19, 26, 50, 81, 84, 50, 4, 14, 9, 50, 14, 1, 50, 26, 23,
          18, 15, 20, 50, 16, 18, 15, 4, 21, 11, 20, 21, 50, 15, 4, 50, 4,
          1, 20, 25, 50, 15, 20, 18, 26, 25, 13, 1, 14, 9, 1, 60, 50, 116,
          18, 15, 4, 21, 11, 20, 50, 13, 21, 19, 9, 50, 2, 25, 73, 50, 23,
          50, 15, 18, 25, 7, 9, 14, 1, 12, 14, 25, 13, 50, 15, 16, 1, 11,
          15, 23, 1, 14, 9, 21, 69, 50, 14, 9, 5, 21, 78, 25, 23, 1, 14,
          25, 60, 50, 111, 15, 19, 26, 20, 50, 26, 23, 18, 15, 20, 21, 50,
          16, 15, 11, 18, 25, 23, 1, 50, 11, 12, 9, 5, 14, 20, 69, 50, 3,
          8, 25, 2, 1, 50, 78, 5, 50, 16, 18, 15, 4, 21, 11, 20, 50, 10, 5,
          19, 20, 50, 23, 1, 4, 12, 9, 23, 25, 60>>,
     metadata |->
       [source |->
          <<118, 5, 7, 21, 12, 1, 13, 9, 14, 50, 26, 23, 18, 15, 20, 71, 23>>,
        category |-> <<26, 23, 18, 15, 20>>]],
    [text |->
        <<115, 6, 5, 18, 21, 10, 5, 13, 25, 50, 14, 1, 19, 20, 74, 16, 21,
          10, 72, 3, 5, 50, 15, 16, 3, 10, 5, 50, 4, 15, 19, 20, 1, 23, 25,
          63, 50, 11, 21, 18, 9, 5, 18, 50, 67, 81, 59, 82, 50, 4, 14, 9,
          50, 18, 15, 2, 15, 3, 26, 5, 69, 50, 11, 15, 19, 26, 20, 50, 81,
          85, 50, 26, 75, 68, 69, 50, 116, 1, 3, 26, 11, 15, 13, 1, 20, 50,
          109, 14, 116, 15, 19, 20, 50, 67, 81, 59, 82, 50, 4, 14, 9, 50,
          18, 15, 2, 15, 3, 26, 5, 69, 50, 11, 15, 19, 26, 20, 50, 81, 82,
          50, 26, 75, 68, 69, 50, 15, 4, 2, 9, 71, 18, 50, 15, 19, 15, 2,
          9, 19, 20, 25, 50, 67, 14, 1, 19, 20, 74, 16, 14, 25, 50, 4, 26,
          9, 5, 76, 50, 18, 15, 2, 15, 3, 26, 25, 69, 50, 4, 1, 18, 13, 15,
          23, 25, 68, 60, 50, 104, 1, 18, 13, 15, 23, 1, 50, 4, 15, 19, 20,
          1, 23, 1, 50, 16, 18, 26, 25, 50, 26, 1, 13, 71, 23, 9, 5, 14, 9,
          1, 3, 8, 50, 16, 15, 23, 25, 78, 5, 10, 50, 82, 80, 80, 50, 26,
          75, 60>>,
     metadata |->
       [source |->
          <<116, 15, 12, 9, 20, 25, 11, 1, 50, 23, 25, 19, 25, 75, 11, 9>>,
        category |-> <<4, 15, 19, 20, 1, 23, 1>>]],
    [text |->
        <<101, 11, 3, 5, 16, 20, 21, 10, 5, 13, 25, 50, 16, 75, 1, 20, 14,
          15, 77, 3, 9, 63, 50, 11, 1, 18, 20, 72, 50, 16, 75, 1, 20, 14,
          9, 3, 26, 72, 50, 67, 122, 9, 19, 1, 69, 50, 113, 1, 19, 20, 5,
          18, 3, 1, 18, 4, 68, 69, 50, 16, 18, 26, 5, 12, 5, 23, 5, 13, 50,
          2, 1, 14, 11, 15, 23, 25, 13, 69, 50, 102, 112, 109, 111, 69, 50,
          16, 75, 1, 20, 14, 15, 77, 3, 9, 50, 15, 4, 18, 15, 3, 26, 15,
          14, 5, 50, 67, 116, 1, 25, 121, 50, 116, 1, 25, 50, 112, 1, 20,
          5, 18, 68, 60, 50, 116, 75, 1, 20, 14, 15, 77, 73, 50, 13, 15,
          78, 14, 1, 50, 4, 15, 11, 15, 14, 1, 73, 50, 16, 15, 4, 3, 26, 1,
          19, 50, 19, 11, 75, 1, 4, 1, 14, 9, 1, 50, 26, 1, 13, 71, 23, 9,
          5, 14, 9, 1, 60>>,
     metadata |->
       [source |->
          <<113, 5, 20, 15, 4, 25, 50, 16, 75, 1, 20, 14, 15, 77, 3, 9>>,
        category |-> <<16, 75, 1, 20, 14, 15, 77, 73>>]],
    [text |->
        <<119, 20, 1, 20, 21, 19, 50, 26, 1, 13, 71, 23, 9, 5, 14, 9, 1,
          50, 13, 15, 78, 14, 1, 50, 19, 16, 18, 1, 23, 4, 26, 9, 73, 50,
          23, 50, 26, 1, 11, 75, 1, 4, 3, 5, 50, 66, 113, 15, 10, 5, 50,
          26, 1, 13, 71, 23, 9, 5, 14, 9, 1, 66, 50, 16, 15, 50, 26, 1, 12,
          15, 7, 15, 23, 1, 14, 9, 21, 60, 50, 115, 20, 18, 26, 25, 13, 1,
          19, 26, 50, 18, 71, 23, 14, 9, 5, 78, 50, 16, 15, 23, 9, 1, 4,
          15, 13, 9, 5, 14, 9, 5, 50, 5, 13, 1, 9, 12, 50, 15, 50, 11, 1,
          78, 4, 5, 10, 50, 26, 13, 9, 1, 14, 9, 5, 50, 19, 20, 1, 20, 21,
          19, 21, 60, 50, 116, 15, 50, 23, 25, 19, 75, 1, 14, 9, 21, 50,
          15, 20, 18, 26, 25, 13, 1, 19, 26, 50, 14, 21, 13, 5, 18, 50, 4,
          15, 50, 77, 12, 5, 4, 26, 5, 14, 9, 1, 50, 16, 18, 26, 5, 19, 25,
          75, 11, 9, 60>>,
     metadata |->
       [source |->
          <<106, 101, 117, 63, 50, 119, 20, 1, 20, 21, 19, 50, 26, 1, 13,
            71, 23, 9, 5, 14, 9, 1>>,
        category |-> <<19, 20, 1, 20, 21, 19>>]],
    [text |->
        <<104, 15, 19, 20, 74, 16, 14, 15, 77, 73, 50, 16, 18, 15, 4, 21,
          11, 20, 71, 23, 50, 10, 5, 19, 20, 50, 1, 11, 20, 21, 1, 12, 9,
          26, 15, 23, 1, 14, 1, 50, 14, 1, 50, 2, 9, 5, 78, 72, 3, 15, 50,
          14, 1, 50, 19, 20, 18, 15, 14, 9, 5, 50, 16, 18, 15, 4, 21, 11,
          20, 21, 60, 50, 110, 5, 77, 12, 9, 50, 16, 18, 15, 4, 21, 11, 20,
          50, 10, 5, 19, 20, 50, 14, 9, 5, 4, 15, 19, 20, 74, 16, 14, 25,
          69, 50, 13, 15, 78, 5, 19, 26, 50, 26, 1, 16, 9, 19, 1, 73, 50,
          19, 9, 74, 50, 14, 1, 50, 16, 15, 23, 9, 1, 4, 15, 13, 9, 5, 14,
          9, 5, 50, 15, 50, 16, 15, 14, 15, 23, 14, 5, 10, 50, 4, 15, 19,
          20, 74, 16, 14, 15, 77, 3, 9, 60>>,
     metadata |->
       [source |->
          <<106, 101, 117, 63, 50, 104, 15, 19, 20, 74, 16, 14, 15, 77, 73,
            50, 16, 18, 15, 4, 21, 11, 20, 71, 23>>,
        category |-> <<16, 18, 15, 4, 21, 11, 20>>]]
    >>

\* service.py 131: the category boost
CategoryBoost == 5

\* set(...) of a list
ToSet(seq) == {seq[i] : i \in 1..Len(seq)}

\* service.py 125: set(doc["text"].lower().split()) of every document
doc_words ==
    [i \in 1..Len(knowledge_base) |->
        ToSet(SplitWords(Lower(knowledge_base[i].text)))]

\* (mutation of Overlap: no category boost)
Overlap_unboosted(i, query, filter_category) ==
    Cardinality(doc_words[i] \cap ToSet(SplitWords(Lower(query))))

\* service.py 119-131: the score of document i for a query
Overlap(i, query, filter_category) ==
    LET query_words == ToSet(SplitWords(Lower(query)))
    IN  Cardinality(doc_words[i] \cap query_words)
        + (IF Truthy(filter_category)
              /\ knowledge_base[i].metadata.category = filter_category
           THEN CategoryBoost ELSE 0)

\* service.py 140: results.sort(key=score, reverse=True), a stable sort:
\* documents of equal score keep their order
RECURSIVE SortByScore(_)
SortByScore(results) ==
    IF results = <<>> THEN <<>>
    ELSE LET n == Len(results)
             best == CHOOSE i \in 1..n : \A j \in 1..n :
                         \/ results[i].score > results[j].score
                         \/ /\ results[i].score = results[j].score
                            /\ i <= j
         IN  <<results[best]>>
             \o SortByScore(SubSeq(results, 1, best - 1)
                            \o SubSeq(results, best + 1, n))

\* service.py 142: results[:top_k], a negative top_k counting from the end
SliceTo(seq, n) ==
    IF n >= Len(seq) THEN seq
    ELSE IF n >= 0 THEN SubSeq(seq, 1, n)
    ELSE SubSeq(seq, 1, Len(seq) + n)

\* service.py 117-142: FallbackRetriever.retrieve
FallbackRetriever_retrieve(query, top_k, filter_category) ==
    SliceTo(SortByScore([i \in 1..Len(knowledge_base) |->
                [text |-> knowledge_base[i].text,
                 metadata |-> knowledge_base[i].metadata,
                 score |-> Overlap(i, query, filter_category)]]),
            top_k)

\* service.py 144-151
FallbackRetriever_format_context(results) ==
    JoinLines([i \in 1..Len(results) |->
                  <<64>> \o Str_Zrodlo \o <<50>> \o Str(i) \o <<63, 50>>
                  \o results[i].metadata.source \o <<65, 51>>
                  \o results[i].text \o <<51>>])

\* service.py 153-162: the loop over the results
RECURSIVE FallbackSourcesLoop(_, _, _)
FallbackSourcesLoop(results, sources, seen) ==
    IF results = <<>> THEN sources
    ELSE LET source == Head(results).metadata.source IN
         IF source \notin seen
         THEN FallbackSourcesLoop(Tail(results), Append(sources, source),
                                  seen \cup {source})
         ELSE FallbackSourcesLoop(Tail(results), sources, seen)

\* service.py 153-162
FallbackRetriever_get_sources(results) ==
    FallbackSourcesLoop(results, <<>>, {})

-----------------------------------------------------------------------------
(* The service (src/rag/service.py): get_retriever and the handlers *)

MaxServiceTopK == 6

\* "Jakie sa koszty dostawy?" (with a-ogonek) and "Koszt zwrotu"
Str_JakieKoszty ==
    <<110, 1, 11, 9, 5, 50, 19, 72, 50, 11, 15, 19, 26, 20, 25, 50, 4, 15,
      19, 20, 1, 23, 25, 62>>
Str_KosztZwrotu == <<111, 15, 19, 26, 20, 50, 26, 23, 18, 15, 20, 21>>
Str_dostawa == <<4, 15, 19, 20, 1, 23, 1>>
Str_zwrot == <<26, 23, 18, 15, 20>>

ServiceQueries == {Str_JakieKoszty, Str_KosztZwrotu}
ServiceTopKs == 1..MaxServiceTopK
ServiceFilters == {None, <<>>, <<1>>, Str_dostawa, Str_zwrot}

\* the step of an initialisation attempt that raises, if it is reached
Failures == {"none", "import", "encoder", "load", "build", "write_chunks"}

\* the documents an attempt finds
ServiceDirs == {DirNone, DirSmall, DirBig}

\* service.py 63, 67: the global after an attempt that raised
AfterFailure_keep == "RAGRetriever"
AfterFailure == "None"

\* service.py 47-67: the initialisation get_retriever attempts when the
\* global is None, over the documents of data_dir: the import (49), the
\* constructor (50; retriever.py 43 the embedding model, 51-52 load_index
\* when both files exist), then build_index when there is no index file
\* (53-55; retriever.py 90 the empty corpus, "build" a step of 96-120 that
\* raises before a file is written, "write_chunks" 124 raising after the
\* index file was written) and else retriever.index.ntotal (58), an
\* AttributeError when nothing was loaded.  Any exception is caught (60-67).
get_retriever(data_dir, fail) ==
    LET both == diskIndex.exists /\ diskChunks.exists
        all_chunks == CollectChunks(data_dir)
        vectors == encode(Texts(all_chunks))
        failed(dI) == [how |-> "failed", index |-> NoneIndex,
                       chunks |-> <<>>, diskIndex |-> dI,
                       diskChunks |-> diskChunks]
    IN  IF fail \in {"import", "encoder"} THEN failed(diskIndex)
        ELSE IF both /\ fail = "load" THEN failed(diskIndex)
        ELSE IF ~diskIndex.exists
        THEN IF all_chunks = <<>>
                \/ fail = "build"
             THEN failed(diskIndex)
             ELSE IF fail = "write_chunks" THEN failed(File(vectors))
             ELSE [how |-> "built", index |-> IndexFlatL2(vectors),
                   chunks |-> all_chunks, diskIndex |-> File(vectors),
                   diskChunks |-> File(all_chunks)]
        ELSE IF ~both THEN failed(diskIndex)
        ELSE [how |-> "loaded", index |-> IndexFlatL2(diskIndex.data),
              chunks |-> diskChunks.data, diskIndex |-> diskIndex,
              diskChunks |-> diskChunks]

\* service.py 47, 69: get_retriever with the global set returns it
Kept == [how |-> "kept", index |-> index, chunks |-> chunks,
         diskIndex |-> diskIndex, diskChunks |-> diskChunks]

\* the global, the retriever and the files after get_retriever gave `got`
GetRetrieverSets(got) ==
    /\ retriever' = IF got.how = "failed" THEN AfterFailure
                    ELSE "RAGRetriever"
    /\ index' = got.index
    /\ chunks' = got.chunks
    /\ diskIndex' = got.diskIndex
    /\ diskChunks' = got.diskChunks

\* (mutation of GetRetriever: the global is not tested, every call
\* initialises)
GetRetriever_untested ==
    {get_retriever(data_dir, fail) :
         data_dir \in ServiceDirs, fail \in Failures}

\* service.py 43-69: what get_retriever can give in this state, over the
\* documents it may find and the steps that may raise
GetRetriever ==
    IF retriever = "None"
    THEN {get_retriever(data_dir, fail) :
              data_dir \in ServiceDirs, fail \in Failures}
    ELSE {Kept}

\* service.py 191-241: POST /retrieve.  The vector retriever answers when
\* get_retriever gives one, else the fallback retriever; an exception
\* becomes the response 500.
retrieve_request(query, top_k, filter_category) ==
    /\ \E got \in GetRetriever :
           LET rag == IF got.how = "failed" THEN AfterFailure
                      ELSE "RAGRetriever"
           IN  \E out \in {IF rag # "None"
                           THEN retrieve(got.index, got.chunks, query, top_k,
                                         filter_category)
                           ELSE [status |-> "ok",
                                 results |-> FallbackRetriever_retrieve(
                                                 query, top_k,
                                                 filter_category)]} :
                   /\ GetRetrieverSets(got)
                   /\ resp' = [kind |-> "retrieve",
                               status |-> IF out.status = "ok" THEN 200
                                          ELSE 500,
                               mode |-> IF rag # "None" THEN "faiss"
                                        ELSE "fallback",
                               how |-> got.how,
                               query |-> query, top_k |-> top_k,
                               filter_category |-> filter_category,
                               chunks |-> out.results,
                               context |->
                                   IF out.status # "ok" THEN <<>>
                                   ELSE IF rag # "None"
                                   THEN format_context(out.results)
                                   ELSE FallbackRetriever_format_context(
                                            out.results),
                               sources |->
                                   IF out.status # "ok" THEN <<>>
                                   ELSE IF rag # "None"
                                   THEN get_sources(out.results)
                                   ELSE FallbackRetriever_get_sources(
                                            out.results)]
    /\ UNCHANGED <<wr, rd, everBuilt, paired, rdPaired, ck>>

\* service.py 168-188, 244-262: GET /, /health and /stats call
\* get_retriever and report the mode
status_request ==
    /\ \E got \in GetRetriever :
           LET rag == IF got.how = "failed" THEN AfterFailure
                      ELSE "RAGRetriever"
           IN  /\ GetRetrieverSets(got)
               /\ resp' = [NoResp EXCEPT
                              !.kind = "status", !.status = 200,
                              !.mode = IF rag # "None" THEN "faiss"
                                       ELSE "fallback",
                              !.how = got.how]
    /\ UNCHANGED <<wr, rd, everBuilt, paired, rdPaired, ck>>

\* the service starts with its global None and whatever artifacts an
\* earlier run left: none, one of the two, or the pair of a one-entry corpus
InitService ==
    /\ retriever = "None"
    /\ resp = NoResp
    /\ ck = CkIdle
    /\ index = NoneIndex
    /\ chunks = <<>>
    /\ diskIndex \in {NoFile, File(encode(Texts(CollectChunks(DirSmall))))}
    /\ diskChunks \in {NoFile, File(CollectChunks(DirSmall))}
    /\ wr = WrIdle
    /\ rd = RdIdle
    /\ everBuilt = FALSE
    /\ paired = TRUE
    /\ rdPaired = TRUE

NextService ==
    \/ \E query \in ServiceQueries, top_k \in ServiceTopKs,
          filter_category \in ServiceFilters :
           retrieve_request(query, top_k, filter_category)
    \/ status_request

SpecService == InitService /\ [][NextService]_vars

-----------------------------------------------------------------------------
(* The chunker alone: chunk_text on every short text *)

MaxTextLen == 7
MaxChunkSize == 4
MaxChunkOverlap == 2

\* the characters of the texts: a letter, a space, a full stop
Alphabet == {1, 50, 60}

\* every text of at most n characters
TextsUpTo(n) == UNION {[1..k -> Alphabet] : k \in 0..n}

\* chunker.py 15-23: a DocumentChunker(chunk_size, chunk_overlap), and a
\* text to give to chunk_text
InitChunker ==
    /\ ck \in [pc : {"call"}, op : {"chunk_text"},
               chunk_size : 1..MaxChunkSize,
               chunk_overlap : 0..MaxChunkOverlap,
               text : TextsUpTo(MaxTextLen), docs : {<<>>},
               chunks : {<<>>}]
    /\ retriever = "None"
    /\ resp = NoResp
    /\ index = NoneIndex
    /\ chunks = <<>>
    /\ diskIndex = NoFile
    /\ diskChunks = NoFile
    /\ wr = WrIdle
    /\ rd = RdIdle
    /\ everBuilt = FALSE
    /\ paired = TRUE
    /\ rdPaired = TRUE

\* chunker.py 25-109: chunk_text(text), with no metadata given (36-37)
chunk_text_call ==
    /\ ck.pc = "call"
    /\ ck.op = "chunk_text"
    /\ ck' = [ck EXCEPT !.pc = "done",
                        !.chunks = chunk_text(ck.text, <<>>, ck.chunk_size,
                                              ck.chunk_overlap)]
    /\ UNCHANGED <<index, chunks, diskIndex, diskChunks, wr, rd, everBuilt,
                   paired, rdPaired, retriever, resp>>

NextChunker == chunk_text_call

SpecChunker == InitChunker /\ [][NextChunker]_vars

-----------------------------------------------------------------------------
(* The chunker alone: the document adapters on short document lists *)

MaxDocs == 2

\* every list of at most n elements of S
ListsUpTo(S, n) == UNION {[1..k -> S] : k \in 0..n}

\* the texts of the records' fields: one word, and two sentences
FieldTexts == {<<1>>, <<1, 60, 50, 1, 60>>}

\* FAQ entries, with and without a category
FaqItems ==
    [question : FieldTexts, answer : FieldTexts]
    \cup [question : FieldTexts, answer : FieldTexts, category : {<<2>>}]

\* the contents of regulation sections: none, one word, two words, two
\* sentences, a long word, and a sentence of two words before another
SectionContents ==
    {<<>>, <<1>>, <<1, 50, 1>>, <<1, 60, 50, 1, 60>>, <<1, 1, 1>>,
     <<1, 50, 1, 60, 50, 1, 50, 1>>}

\* regulation sections
RegulationItems == [section : {<<1>>, <<2>>}, content : SectionContents]

\* dialogs, with and without a category and a confidence
DialogItems ==
    [customer_query : FieldTexts, ai_response : FieldTexts]
    \cup [customer_query : FieldTexts, ai_response : FieldTexts,
          category : {<<2>>}, confidence : {1}]

\* a DocumentChunker(chunk_size, chunk_overlap) and the parsed list of one
\* document file to give to its adapter
InitAdapters ==
    /\ ck \in [pc : {"call"}, op : {"chunk_faq"},
               chunk_size : 1..MaxChunkSize,
               chunk_overlap : 0..MaxChunkOverlap, text : {<<>>},
               docs : ListsUpTo(FaqItems, MaxDocs), chunks : {<<>>}]
           \cup [pc : {"call"}, op : {"chunk_regulations"},
                 chunk_size : 1..MaxChunkSize,
                 chunk_overlap : 0..MaxChunkOverlap, text : {<<>>},
                 docs : ListsUpTo(RegulationItems, MaxDocs), chunks : {<<>>}]
           \cup [pc : {"call"}, op : {"chunk_dialogs"},
                 chunk_size : 1..MaxChunkSize,
                 chunk_overlap : 0..MaxChunkOverlap, text : {<<>>},
                 docs : ListsUpTo(DialogItems, MaxDocs), chunks : {<<>>}]
    /\ retriever = "None"
    /\ resp = NoResp
    /\ index = NoneIndex
    /\ chunks = <<>>
    /\ diskIndex = NoFile
    /\ diskChunks = NoFile
    /\ wr = WrIdle
    /\ rd = RdIdle
    /\ everBuilt = FALSE
    /\ paired = TRUE
    /\ rdPaired = TRUE

\* (mutation of chunk_faq_call: the FAQ text goes through chunk_text)
chunk_faq_call_split ==
    /\ ck.pc = "call"
    /\ ck.op = "chunk_faq"
    /\ ck' = [ck EXCEPT
                 !.pc = "done",
                 !.chunks = chunk_regulations(
                                [i \in 1..Len(ck.docs) |->
                                    [section |-> ck.docs[i].question,
                                     content |-> ck.docs[i].answer]],
                                ck.chunk_size, ck.chunk_overlap)]
    /\ UNCHANGED <<index, chunks, diskIndex, diskChunks, wr, rd, everBuilt,
                   paired, rdPaired, retriever, resp>>

\* chunker.py 111-137: chunk_faq
chunk_faq_call ==
    /\ ck.pc = "call"
    /\ ck.op = "chunk_faq"
    /\ ck' = [ck EXCEPT !.pc = "done", !.chunks = chunk_faq(ck.docs)]
    /\ UNCHANGED <<index, chunks, diskIndex, diskChunks, wr, rd, everBuilt,
                   paired, rdPaired, retriever, resp>>

\* chunker.py 139-173: chunk_regulations
chunk_regulations_call ==
    /\ ck.pc = "call"
    /\ ck.op = "chunk_regulations"
    /\ ck' = [ck EXCEPT !.pc = "done",
                        !.chunks = chunk_regulations(ck.docs, ck.chunk_size,
                                                     ck.chunk_overlap)]
    /\ UNCHANGED <<index, chunks, diskIndex, diskChunks, wr, rd, everBuilt,
                   paired, rdPaired, retriever, resp>>

\* chunker.py 175-203: chunk_dialogs
chunk_dialogs_call ==
    /\ ck.pc = "call"
    /\ ck.op = "chunk_dialogs"
    /\ ck' = [ck EXCEPT !.pc = "done", !.chunks = chunk_dialogs(ck.docs)]
    /\ UNCHANGED <<index, chunks, diskIndex, diskChunks, wr, rd, everBuilt,
                   paired, rdPaired, retriever, resp>>

NextAdapters ==
    \/ chunk_faq_call
    \/ chunk_regulations_call
    \/ chunk_dialogs_call

SpecAdapters == InitAdapters /\ [][NextAdapters]_vars

-----------------------------------------------------------------------------
(* format_context and get_sources alone, on short result lists *)

MaxResults == 3

\* the metadata of results: none, a source alone, a source with a section
\* (two sections of one source), with a section of empty name, and a
\* section alone
ResultMetadata ==
    {<<>>, [source |-> Str_FAQ], [source |-> Str_Regulations],
     [source |-> Str_Regulations, section |-> <<1>>],
     [source |-> Str_Regulations, section |-> <<2>>],
     [source |-> Str_Regulations, section |-> <<>>],
     [section |-> <<1>>]}

ResultItems == [text : {<<1>>, <<2, 51, 2>>}, metadata : ResultMetadata,
                score : {0}]

\* some retrieve call returned the results
InitFormat ==
    /\ rd \in {[RdIdle EXCEPT !.out = [status |-> "ok", results |-> results]] :
                  results \in ListsUpTo(ResultItems, MaxResults)}
    /\ retriever = "None"
    /\ resp = NoResp
    /\ ck = CkIdle
    /\ index = NoneIndex
    /\ chunks = <<>>
    /\ diskIndex = NoFile
    /\ diskChunks = NoFile
    /\ wr = WrIdle
    /\ everBuilt = FALSE
    /\ paired = TRUE
    /\ rdPaired = TRUE

NextFormat ==
    \/ format_context_call
    \/ get_sources_call

SpecFormat == InitFormat /\ [][NextFormat]_vars

-----------------------------------------------------------------------------
(* Properties *)

\* the index holds exactly the embeddings of the chunks, in their order
IndexMatchesChunks ==
    /\ ~index.isNone
    /\ index.vectors = encode(Texts(chunks))

\* when the writer's call started, the index held exactly the embeddings of
\* the chunks
PreMatched ==
    /\ ~wr.pre.index.isNone
    /\ wr.pre.index.vectors = encode(Texts(wr.pre.chunks))

\* when the writer's call started, both artifacts existed and held as many
\* vectors as chunks
PrePersistedPair ==
    /\ wr.pre.diskIndex.exists
    /\ wr.pre.diskChunks.exists
    /\ Len(wr.pre.diskIndex.data) = Len(wr.pre.diskChunks.data)

\* no call is running
Quiet == wr.pc = "idle" /\ rd.pc = "idle"

\* the writer's last call was `op` and it raised
Raised(op) == wr.pc = "idle" /\ wr.op = op /\ wr.result \notin {"none", "ok"}

\* retrieve has returned a result list
Retrieved == rd.pc = "idle" /\ rd.out.status = "ok"

\* the category a result is filtered by
CategoryOf(chunk) == Get(Get(chunk, "metadata", <<>>), "category", <<>>)

\* C1: between calls, whenever the index is set, it holds as many vectors
\* as there are chunks and vector i is the embedding of chunk i.
C1_IndexMatchesChunks ==
    (Quiet /\ ~index.isNone) =>
        /\ Len(index.vectors) = Len(chunks)
        /\ \A i \in 1..Len(chunks) : index.vectors[i] = Embed(chunks[i].text)

\* C2: a build_index call that raises on a retriever that held an index
\* and the chunks it was built from leaves the index and the chunk sequence
\* as they were before the call.
C2_BuildAllOrNothing ==
    (Raised("build_index") /\ PreMatched) =>
        /\ index = wr.pre.index
        /\ chunks = wr.pre.chunks

\* C3: a retrieve that returns while a build_index or load_index call runs,
\* the call having started from a paired index and chunk sequence, has read
\* an index and a chunk sequence of one generation.
C3_NoTornRead ==
    (/\ rd.pc = "idle"
     /\ rd.out.status \in {"ok", "IndexError"}
     /\ wr.pc # "idle"
     /\ wr.op \in {"build_index", "load_index"}
     /\ wr.pre.paired) => rdPaired

\* C4: a retrieve call made when no build_index or load_index call has
\* returned without raising fails with IndexNotBuilt.
C4_IndexNotBuilt ==
    (rd.pc = "idle" /\ rd.out.status # "none" /\ ~everBuilt) =>
        rd.out.status = "IndexNotBuilt"

\* C5: a build_index call whose documents give no chunk fails with
\* EmptyCorpus and leaves the index, the chunk sequence and both persisted
\* artifacts as they were.
C5_EmptyCorpus ==
    (/\ wr.pc = "idle"
     /\ wr.op = "build_index"
     /\ CollectChunks(wr.data_dir) = <<>>) =>
        /\ wr.result = "EmptyCorpus"
        /\ index = wr.pre.index
        /\ chunks = wr.pre.chunks
        /\ diskIndex = wr.pre.diskIndex
        /\ diskChunks = wr.pre.diskChunks

\* C5 witness: an empty corpus was refused on a retriever that holds an
\* index and chunks and has both artifacts persisted
C5_Witness ==
    /\ wr.pc = "idle"
    /\ wr.op = "build_index"
    /\ wr.data_dir = DirBlank
    /\ wr.result = "EmptyCorpus"
    /\ ~index.isNone
    /\ chunks # <<>>
    /\ diskIndex.exists
    /\ diskChunks.exists

\* C6: a load_index call that reads both artifacts, the index artifact
\* holding another number of vectors than the chunk artifact holds chunks,
\* fails with CorruptState.
C6_LoadCorruptState ==
    (/\ wr.pc = "idle"
     /\ wr.op = "load_index"
     /\ wr.result \notin {"none", "read_index_error", "read_chunks_error"}
     /\ Len(wr.pre.diskIndex.data) # Len(wr.pre.diskChunks.data)) =>
        wr.result = "CorruptState"

\* C7: a build_index call that raises leaves both persisted artifacts as
\* they were before the call.
C7_PersistOnlyOnSuccess ==
    Raised("build_index") =>
        /\ diskIndex = wr.pre.diskIndex
        /\ diskChunks = wr.pre.diskChunks

\* C8: at every point during and after a save of an index that matches its
\* chunks, over artifacts that were a pair, if both artifacts exist the
\* persisted index holds as many vectors as the persisted chunk sequence
\* holds chunks.
C8_ArtifactsArePair ==
    (/\ diskIndex.exists
     /\ diskChunks.exists
     /\ IndexMatchesChunks
     /\ PrePersistedPair) =>
        Len(diskIndex.data) = Len(diskChunks.data)

\* C9: retrieve returns at most top_k results, and with filter_category
\* set the category of every result (empty when the chunk has none)
\* contains the filter, letter case ignored.
C9_AtMostTopKFiltered ==
    Retrieved =>
        /\ Len(rd.out.results) <= rd.top_k
        /\ rd.filter_category # None =>
               \A i \in 1..Len(rd.out.results) :
                   Contains(Lower(CategoryOf(rd.out.results[i])),
                            Lower(rd.filter_category))

\* C9 witness: on a built retriever, a filtered retrieve returned top_k = 2
\* results, one of them matching the filter only when case is ignored
C9_Witness ==
    /\ Retrieved
    /\ everBuilt
    /\ IndexMatchesChunks
    /\ rd.top_k = 2
    /\ rd.filter_category = <<1>>
    /\ Len(rd.out.results) = 2
    /\ \E i \in 1..2 : CategoryOf(rd.out.results[i]) = <<101>>

\* C10: on a built retriever whose index matches its chunks, a filtered
\* retrieve returns fewer than top_k results only if fewer than top_k chunks
\* of the corpus have a category that contains the filter.
C10_FewerOnlyIfExhausted ==
    (/\ Retrieved
     /\ everBuilt
     /\ IndexMatchesChunks
     /\ Truthy(rd.filter_category)
     /\ Len(rd.out.results) < rd.top_k) =>
        Cardinality({i \in 1..Len(chunks) :
                        PassesFilter(chunks[i], rd.filter_category)})
            < rd.top_k

\* the first n elements of a sequence (all of them when it has fewer)
FirstN(seq, n) == SubSeq(seq, 1, IF Len(seq) < n THEN Len(seq) ELSE n)

\* the search_k nearest indexed chunks of the reader's query, nearest first,
\* each with its own distance as score: the candidates of the reader's call
NearestChunks ==
    LET n == Len(index.vectors)
        search_k == SearchK(rd.top_k, rd.filter_category)
        hits == search(index, Embed(rd.query),
                       IF search_k < n THEN search_k ELSE n)
    IN  [i \in 1..Len(hits) |->
            [text |-> chunks[hits[i].idx + 1].text,
             metadata |-> chunks[hits[i].idx + 1].metadata,
             score |-> L2(Embed(chunks[hits[i].idx + 1].text),
                          Embed(rd.query))]]

\* the candidate passes the reader's filter (any candidate when no filter is
\* requested)
PassesRequest(chunk) ==
    Truthy(rd.filter_category) => PassesFilter(chunk, rd.filter_category)

\* C11: on a built retriever whose index matches its chunks, retrieve
\* returns exactly the first top_k filter-passing candidates, nearest first
\* and each with its own distance as score, of the search_k nearest indexed
\* chunks (search_k = 3 * top_k with a filter, top_k without).
C11_FirstTopKOfNearest ==
    (Retrieved /\ everBuilt /\ IndexMatchesChunks) =>
        rd.out.results = FirstN(SelectSeq(NearestChunks, PassesRequest),
                                rd.top_k)

\* the writer's last call was one of `ops` and it returned
Returned(ops) == wr.pc = "idle" /\ wr.op \in ops /\ wr.result = "ok"

\* when the writer's call started the retriever held an index, and the two
\* artifacts held exactly that index and the retriever's chunks: the state a
\* save_index leaves
PreSaved ==
    /\ ~wr.pre.index.isNone
    /\ wr.pre.diskIndex = File(wr.pre.index.vectors)
    /\ wr.pre.diskChunks = File(wr.pre.chunks)

\* C12: a save_index that returns leaves the retriever as it was and both
\* artifacts holding exactly its index and chunks; a load_index that
\* returns on such a saved retriever, or a retriever constructed in its
\* place from the same paths, holds the saved index and chunks, and retrieve
\* on it returns what retrieve returned before, for every query, top_k and
\* filter.
C12_RoundTrip ==
    /\ Returned({"save_index"}) =>
           /\ index = wr.pre.index
           /\ chunks = wr.pre.chunks
           /\ diskIndex = File(index.vectors)
           /\ diskChunks = File(chunks)
    /\ (Returned({"load_index", "init"}) /\ PreSaved) =>
           /\ index = wr.pre.index
           /\ chunks = wr.pre.chunks
           /\ \A query \in Queries, top_k \in TopKs,
                 filter_category \in Filters :
                  retrieve(index, chunks, query, top_k, filter_category)
                  = retrieve(wr.pre.index, wr.pre.chunks, query, top_k,
                             filter_category)

\* C12 witness: load_index returned on a retriever of four chunks that had
\* been saved
C12_Witness ==
    /\ Returned({"load_index"})
    /\ PreSaved
    /\ Len(chunks) = 4
    /\ IndexMatchesChunks

\* C13: a build_index that returns leaves exactly the chunks of its
\* documents and an index of exactly their embeddings, whatever the
\* retriever held before: a second call on the same documents leaves what
\* the first call left, nothing accumulated.
C13_BuildIdempotent ==
    Returned({"build_index"}) =>
        /\ chunks = CollectChunks(wr.data_dir)
        /\ index = IndexFlatL2(encode(Texts(CollectChunks(wr.data_dir))))

\* C13 witness: build_index returned on a retriever that already held the
\* four chunks and the index a build of the same documents leaves
C13_Witness ==
    /\ Returned({"build_index"})
    /\ wr.data_dir = DirBig
    /\ wr.pre.chunks = CollectChunks(DirBig)
    /\ wr.pre.index = IndexFlatL2(encode(Texts(CollectChunks(DirBig))))
    /\ index = wr.pre.index
    /\ chunks = wr.pre.chunks

\* the service's last response answers a POST /retrieve
Answered == resp.kind = "retrieve"

\* C14: a retrieve request during which the vector retriever could not be
\* initialised is answered 200 by the fallback retriever, with exactly what
\* the fallback retriever returns for the request.
C14_DegradesToFallback ==
    (Answered /\ resp.how = "failed") =>
        /\ resp.status = 200
        /\ resp.mode = "fallback"
        /\ resp.chunks = FallbackRetriever_retrieve(resp.query, resp.top_k,
                                                    resp.filter_category)

\* C14 witness: with the index artifact alone on disk the initialisation
\* failed and the request was answered by the fallback retriever
C14_Witness ==
    /\ Answered
    /\ resp.how = "failed"
    /\ diskIndex.exists
    /\ ~diskChunks.exists
    /\ resp.status = 200
    /\ resp.mode = "fallback"
    /\ Len(resp.chunks) = 2

\* C15: the step after a request whose initialisation attempt failed, the
\* service in fallback mode, leaves the service in fallback mode: handling
\* a request never switches it to the vector retriever.
C15_NoAutoPromotion ==
    [][(retriever = "None" /\ resp.how = "failed") => retriever' = "None"]_vars

\* when the writer's call started, both artifacts existed
PreBothArtifacts == wr.pre.diskIndex.exists /\ wr.pre.diskChunks.exists

\* C16: a load_index or constructor call made when the two artifacts are
\* not both present loads nothing: a constructor that returns gives an
\* Uninitialized retriever (no index, no chunks), and otherwise the
\* retriever keeps the index and chunks it had.
C16_LoadedAsPair ==
    (/\ wr.pc = "idle"
     /\ wr.op \in {"load_index", "init"}
     /\ ~PreBothArtifacts) =>
        IF wr.op = "init" /\ wr.result = "ok"
        THEN index.isNone /\ chunks = <<>>
        ELSE index = wr.pre.index /\ chunks = wr.pre.chunks

\* the number of distinct whitespace tokens, letter case ignored, that
\* knowledge entry i shares with the query of the last request
SharedTokens(i) ==
    Cardinality(ToSet(SplitWords(Lower(knowledge_base[i].text)))
                \cap ToSet(SplitWords(Lower(resp.query))))

\* the score the contract gives knowledge entry i for the last request
ContractScore(i) ==
    SharedTokens(i)
    + (IF knowledge_base[i].metadata.category = resp.filter_category
       THEN 5 ELSE 0)

\* C17: a response of the fallback retriever holds min(top_k, number of
\* entries) distinct knowledge entries, each scored by the tokens it shares
\* with the query plus 5 when its category equals the filter, in
\* non-increasing score order, no entry left out scoring higher than one
\* returned; an entry whose category equals the filter comes first when
\* every other entry shares fewer than 5 more tokens with the query.
C17_FallbackScoring ==
    (Answered /\ resp.mode = "fallback") =>
        LET n == Len(knowledge_base)
            r == resp.chunks
        IN  /\ Len(r) = (IF resp.top_k < n THEN resp.top_k ELSE n)
            /\ \A j \in 1..Len(r) : \E i \in 1..n :
                   r[j] = [text |-> knowledge_base[i].text,
                           metadata |-> knowledge_base[i].metadata,
                           score |-> ContractScore(i)]
            /\ \A j, k \in 1..Len(r) :
                   j < k => /\ r[j].text # r[k].text
                            /\ r[j].score >= r[k].score
            /\ \A i \in 1..n :
                   (\A j \in 1..Len(r) : r[j].text # knowledge_base[i].text)
                   => \A j \in 1..Len(r) : ContractScore(i) <= r[j].score
            /\ \A e \in 1..n :
                   (/\ knowledge_base[e].metadata.category
                         = resp.filter_category
                    /\ \A o \in (1..n) \ {e} :
                           SharedTokens(o) - SharedTokens(e) < 5)
                   => r[1].text = knowledge_base[e].text

\* C17 witness: for "Koszt zwrotu" with the filter "dostawa" and top_k 6 the
\* fallback retriever returned all five entries, the delivery entry (one
\* shared token, boosted to 6) before the returns entry (two shared tokens)
C17_Witness ==
    /\ Answered
    /\ resp.mode = "fallback"
    /\ resp.query = Str_KosztZwrotu
    /\ resp.filter_category = Str_dostawa
    /\ resp.top_k = 6
    /\ Len(resp.chunks) = 5
    /\ resp.chunks[1].metadata.category = Str_dostawa
    /\ resp.chunks[1].score = 6
    /\ resp.chunks[2].metadata.category = Str_zwrot
    /\ resp.chunks[2].score = 2
    /\ resp.chunks[3].score = 0

\* C18: a retrieve request answered 200, by the vector retriever or by the
\* fallback retriever, holds at most top_k chunks, and with filter_category
\* set the category of every chunk contains the filter, letter case
\* ignored.
C18_ServiceContract ==
    (Answered /\ resp.status = 200) =>
        /\ Len(resp.chunks) <= resp.top_k
        /\ resp.filter_category # None =>
               \A i \in 1..Len(resp.chunks) :
                   Contains(Lower(CategoryOf(resp.chunks[i])),
                            Lower(resp.filter_category))

\* chunk_text has returned
Chunked == ck.pc = "done"

\* the last n characters of s, none when n = 0
Suffix(s, n) == SubSeq(s, Len(s) - n + 1, Len(s))

\* C19: no chunk chunk_text returns is longer than chunk_size +
\* chunk_overlap characters, and none is the empty string.
C19_ChunkLengthBound ==
    Chunked =>
        \A i \in 1..Len(ck.chunks) :
            /\ Len(ck.chunks[i].text) <= ck.chunk_size + ck.chunk_overlap
            /\ ck.chunks[i].text # <<>>

\* C20: when no sentence of the text is longer than chunk_size, so that
\* every chunk comes from sentence packing (and the text has no leading or
\* trailing whitespace, so that no sentence is empty), the last k
\* characters of each chunk are the first k characters of the next one, k
\* the smaller of chunk_overlap and the chunk's length.
C20_OverlapProperty ==
    (/\ Chunked
     /\ Strip(ck.text) = ck.text
     /\ \A j \in 1..Len(SplitSentences(ck.text)) :
            Len(SplitSentences(ck.text)[j]) <= ck.chunk_size) =>
        \A i \in 1..(Len(ck.chunks) - 1) :
            LET this == ck.chunks[i].text
                next == ck.chunks[i + 1].text
                k == IF ck.chunk_overlap < Len(this) THEN ck.chunk_overlap
                     ELSE Len(this)
            IN  /\ Len(next) >= k
                /\ SubSeq(next, 1, k) = Suffix(this, k)

\* the texts of the chunks chunk_text returned
ChunkTexts == Texts(ck.chunks)

\* the words of a sequence of texts, in order
RECURSIVE WordsOfAll(_)
WordsOfAll(texts) ==
    IF texts = <<>> THEN <<>>
    ELSE SplitWords(Head(texts)) \o WordsOfAll(Tail(texts))

\* the words joined by single spaces
RECURSIVE JoinWords(_)
JoinWords(words) ==
    IF words = <<>> THEN <<>>
    ELSE IF Len(words) = 1 THEN Head(words)
    ELSE Head(words) \o Space \o JoinWords(Tail(words))

\* the text is one sentence, longer than chunk_size, of words that each fit
\* in chunk_size
OneLongSentence ==
    /\ SplitSentences(ck.text) = <<ck.text>>
    /\ Len(ck.text) > ck.chunk_size
    /\ \A j \in 1..Len(SplitWords(ck.text)) :
           Len(SplitWords(ck.text)[j]) <= ck.chunk_size

\* C21: a sentence longer than chunk_size, its words each fitting, is split
\* into sub-chunks of whole consecutive words joined by single spaces, no
\* word shared or lost, each at most chunk_size long, and packed greedily:
\* the first word of the next sub-chunk would not have fitted in chunk_size.
C21_LongSentenceSplit ==
    (Chunked /\ OneLongSentence) =>
        /\ WordsOfAll(ChunkTexts) = SplitWords(ck.text)
        /\ \A i \in 1..Len(ChunkTexts) :
               /\ ChunkTexts[i] = JoinWords(SplitWords(ChunkTexts[i]))
               /\ Len(ChunkTexts[i]) <= ck.chunk_size
        /\ \A i \in 1..(Len(ChunkTexts) - 1) :
               Len(ChunkTexts[i]) + 1
               + Len(Head(SplitWords(ChunkTexts[i + 1]))) > ck.chunk_size

\* an adapter has returned
Adapted(op) == ck.pc = "done" /\ ck.op = op

\* the texts chunk_text gives for the content of each regulation section in
\* turn, each after the section's header in brackets and a blank line
RECURSIVE HeadedSectionTexts(_)
HeadedSectionTexts(sections) ==
    IF sections = <<>> THEN <<>>
    ELSE LET section == Head(sections).section
             texts == Texts(chunk_text(Head(sections).content, <<>>,
                                       ck.chunk_size, ck.chunk_overlap))
         IN  [i \in 1..Len(texts) |->
                 <<64>> \o section \o <<65, 51, 51>> \o texts[i]]
             \o HeadedSectionTexts(Tail(sections))

\* C22: chunk_faq returns one chunk per entry and chunk_dialogs one chunk
\* per dialog, in source order, the chunk holding the whole question and
\* answer (query and response) whatever chunk_size is, a dialog chunk with
\* its record's confidence; chunk_regulations returns, section after
\* section, the chunk_text chunks of the content, each after the section's
\* header.
C22_Adapters ==
    /\ Adapted("chunk_faq") =>
           /\ Len(ck.chunks) = Len(ck.docs)
           /\ \A i \in 1..Len(ck.docs) :
                  ck.chunks[i].text
                  = Str_Pytanie \o ck.docs[i].question \o Str_Odpowiedz
                    \o ck.docs[i].answer
    /\ Adapted("chunk_dialogs") =>
           /\ Len(ck.chunks) = Len(ck.docs)
           /\ \A i \in 1..Len(ck.docs) :
                  /\ ck.chunks[i].text
                     = Str_Klient \o ck.docs[i].customer_query
                       \o Str_Asystent \o ck.docs[i].ai_response
                  /\ ck.chunks[i].metadata.confidence
                     = IF "confidence" \in DOMAIN ck.docs[i]
                       THEN ck.docs[i].confidence ELSE 0
    /\ Adapted("chunk_regulations") =>
           Texts(ck.chunks) = HeadedSectionTexts(ck.docs)

\* C22 witness: chunk_faq, with chunk_size 1, returned two chunks for two
\* entries, the second with a two-sentence answer
C22_Witness ==
    /\ Adapted("chunk_faq")
    /\ ck.chunk_size = 1
    /\ Len(ck.docs) = 2
    /\ ck.docs[2].answer = <<1, 60, 50, 1, 60>>
    /\ Len(ck.chunks) = 2

\* C23: every chunk a chunker method has returned, and every chunk of the
\* retriever's chunk sequence, has a source in its metadata.
C23_SourceField ==
    /\ ck.pc = "done" =>
           \A i \in 1..Len(ck.chunks) :
               "source" \in DOMAIN ck.chunks[i].metadata
    /\ \A i \in 1..Len(chunks) : "source" \in DOMAIN chunks[i].metadata

\* a step of a retrieve call, of a format_context or get_sources call, of a
\* save_index call
RetrieveStep ==
    \/ rd.pc \in {"r_search", "r_loop"}
    \/ rd.pc = "idle" /\ rd'.pc = "r_search"
    \/ rd.pc = "idle" /\ rd' # rd /\ rd'.out.status = "IndexNotBuilt"
FormatStep == rd'.did # rd.did /\ rd'.did # {}
SaveStep ==
    \/ wr.pc = "idle" /\ wr'.pc = "s_index" /\ wr'.op = "save_index"
    \/ wr.pc \in {"s_index", "s_chunks"} /\ wr.op = "save_index"

\* C24: a step of retrieve, format_context, get_sources or save_index
\* leaves self.index and self.chunks as they were, and no stored chunk has
\* a score.
C24_CorpusFrame ==
    [][(RetrieveStep \/ FormatStep \/ SaveStep) =>
           /\ UNCHANGED <<index, chunks>>
           /\ \A i \in 1..Len(chunks') : "score" \notin DOMAIN chunks'[i]]_vars

\* C24 witness: retrieve returned scored results of a saved corpus, and
\* format_context and get_sources were called on them
C24_Witness ==
    /\ rd.pc = "idle"
    /\ rd.did = {"format_context", "get_sources"}
    /\ Len(rd.out.results) = 2
    /\ \A i \in 1..2 : "score" \in DOMAIN rd.out.results[i]
    /\ Len(chunks) >= 2
    /\ diskChunks.exists

\* get_sources has returned rd.sources for rd.out.results
GotSources == rd.pc = "idle" /\ "get_sources" \in rd.did

\* a result's source ("Unknown" when it has none) and whether its metadata
\* has the key section
SourceOf(result) ==
    IF "metadata" \in DOMAIN result /\ "source" \in DOMAIN result.metadata
    THEN result.metadata.source
    ELSE Str_Unknown
HasSection(result) ==
    "metadata" \in DOMAIN result /\ "section" \in DOMAIN result.metadata

\* the identifier of a result: "<source>: <section>" with the key section,
\* else "<source>"
KeyedId(result) ==
    IF HasSection(result)
    THEN SourceOf(result) \o <<63, 50>> \o result.metadata.section
    ELSE SourceOf(result)

\* the identifier of a result: "<source>: <section>" with a section that is
\* not empty, else "<source>"
NonEmptySectionId(result) ==
    IF HasSection(result) /\ result.metadata.section # <<>>
    THEN SourceOf(result) \o <<63, 50>> \o result.metadata.section
    ELSE SourceOf(result)

\* sources holds the identifiers Id of the results, each once, in the order
\* of their first occurrence
SourcesOf(results, sources, Id(_)) ==
    LET First(id) == CHOOSE i \in 1..Len(results) :
                         /\ Id(results[i]) = id
                         /\ \A j \in 1..(i - 1) : Id(results[j]) # id
    IN  /\ \A a, b \in 1..Len(sources) : a # b => sources[a] # sources[b]
        /\ ToSet(sources) = {Id(results[i]) : i \in 1..Len(results)}
        /\ \A a, b \in 1..Len(sources) :
               a < b => First(sources[a]) < First(sources[b])

\* C25 as stated: get_sources returns one identifier per distinct source of
\* the results, "<source>: <section>" when the result has the metadata key
\* section and "<source>" otherwise, without duplicates, in the order of
\* first occurrence.
C25_SourcesBySectionKey ==
    GotSources => SourcesOf(rd.out.results, rd.sources, KeyedId)

\* C25 amended: get_sources returns one identifier per distinct source of
\* the results, "<source>: <section>" when the result has a section that is
\* not empty and "<source>" otherwise ("Unknown" for a result without
\* source), without duplicates, in the order of first occurrence; the
\* fallback's get_sources does so for the fallback's results.
C25_SourcesByNonEmptySection ==
    /\ GotSources => SourcesOf(rd.out.results, rd.sources, NonEmptySectionId)
    /\ (resp.kind = "retrieve" /\ resp.status = 200) =>
           SourcesOf(resp.chunks, resp.sources, NonEmptySectionId)

\* C25 witness: get_sources returned two identifiers for three results, the
\* first and the third of one section, the second of another source
C25_Witness ==
    /\ GotSources
    /\ Len(rd.out.results) = 3
    /\ HasSection(rd.out.results[1])
    /\ rd.out.results[1].metadata.section # <<>>
    /\ rd.out.results[3].metadata = rd.out.results[1].metadata
    /\ SourceOf(rd.out.results[2]) # SourceOf(rd.out.results[1])
    /\ Len(rd.sources) = 2

\* "Source"
Str_Source == <<119, 15, 21, 18, 3, 5>>

\* the blocks "[<label> i: <source>]\n<text>\n" of the results, i from 1 in
\* input order, a newline between two blocks
RECURSIVE BlocksFrom(_, _, _)
BlocksFrom(results, label, i) ==
    IF i > Len(results) THEN <<>>
    ELSE <<64>> \o label \o Space \o Str(i) \o <<63, 50>>
         \o SourceOf(results[i]) \o <<65, 51>> \o results[i].text \o <<51>>
         \o (IF i < Len(results) THEN <<51>> ELSE <<>>)
         \o BlocksFrom(results, label, i + 1)

\* a format_context call returns
FormatContextStep ==
    "format_context" \notin rd.did /\ "format_context" \in rd'.did

\* the step changes nothing but the context returned
PureFormat ==
    /\ rd'.out = rd.out
    /\ UNCHANGED <<index, chunks, diskIndex, diskChunks, wr, retriever,
                   resp, ck>>

\* C26 as stated: format_context returns one block per result, numbered
\* 1..n in input order, block i made of the source and the text of result i
\* and labelled "Source i", and changes neither the results nor the
\* retriever.
C26_BlocksLabelledSource ==
    [][FormatContextStep =>
           /\ rd'.context = BlocksFrom(rd.out.results, Str_Source, 1)
           /\ PureFormat]_vars

\* C26 amended: format_context returns one block per result, numbered 1..n
\* in input order, block i made of the source and the text of result i and
\* labelled "Źródło i", and changes neither the results nor the retriever;
\* the fallback's format_context returns the same blocks.
C26_BlocksLabelledZrodlo ==
    [][/\ FormatContextStep =>
              /\ rd'.context = BlocksFrom(rd.out.results, Str_Zrodlo, 1)
              /\ PureFormat
       /\ (resp'.kind = "retrieve" /\ resp'.status = 200) =>
              resp'.context = BlocksFrom(resp'.chunks, Str_Zrodlo, 1)]_vars

\* C26 witness: format_context returned the context of three results
C26_Witness ==
    /\ rd.pc = "idle"
    /\ "format_context" \in rd.did
    /\ Len(rd.out.results) = 3
    /\ rd.out.results[1] # rd.out.results[2]
    /\ rd.context # <<>>

\* the positions (from 1) that hold both a vector and a chunk
ValidPositions ==
    1..(IF Len(index.vectors) < Len(chunks) THEN Len(index.vectors)
        ELSE Len(chunks))

\* C27: the results of a retrieve (on an index that holds the embeddings of
\* the chunks) come from distinct valid positions: each is the chunk at its
\* position with the distance of that position's vector to the query, and
\* no position gives two results.
C27_DistinctRealHits ==
    (Retrieved /\ IndexMatchesChunks) =>
        \E pos \in [1..Len(rd.out.results) -> ValidPositions] :
            /\ \A i, j \in 1..Len(rd.out.results) :
                   i # j => pos[i] # pos[j]
            /\ \A i \in 1..Len(rd.out.results) :
                   /\ rd.out.results[i].text = chunks[pos[i]].text
                   /\ rd.out.results[i].metadata = chunks[pos[i]].metadata
                   /\ rd.out.results[i].score
                      = L2(index.vectors[pos[i]], Embed(rd.query))

\* C28: with chunk_overlap 0 the words of the chunks, in order, are the
\* words of the text.
C28_NoWordLost ==
    (Chunked /\ ck.chunk_overlap = 0) =>
        WordsOfAll(ChunkTexts) = SplitWords(ck.text)

\* C28 witness: with no overlap, chunk_text packed a short sentence whole
\* and split a long one by words
C28_Witness ==
    /\ Chunked
    /\ ck.chunk_overlap = 0
    /\ Len(SplitSentences(ck.text)) = 2
    /\ Len(SplitSentences(ck.text)[1]) \in 1..ck.chunk_size
    /\ Len(SplitSentences(ck.text)[2]) > ck.chunk_size
    /\ Len(SplitWords(SplitSentences(ck.text)[2])) >= 2
    /\ Len(ck.chunks) = 3

\* the units of the text in order: each sentence that is not blank, and
\* for a sentence longer than chunk_size each of its words
RECURSIVE UnitsOf(_)
UnitsOf(sentences) ==
    IF sentences = <<>> THEN <<>>
    ELSE (IF Len(Head(sentences)) > ck.chunk_size
          THEN SplitWords(Head(sentences))
          ELSE IF Strip(Head(sentences)) # <<>>
          THEN <<Strip(Head(sentences))>>
          ELSE <<>>)
         \o UnitsOf(Tail(sentences))

Units == UnitsOf(SplitSentences(ck.text))

\* C29: every chunk chunk_text returned holds a sentence, or a word of a
\* split sentence, that starts in it: the chunks in order can be given
\* units of the text in order, each chunk holding its own.
C29_NoOverlapOnlyChunk ==
    Chunked =>
        \E unit \in [1..Len(ck.chunks) -> 1..Len(Units)] :
            /\ \A i, j \in 1..Len(ck.chunks) : i < j => unit[i] < unit[j]
            /\ \A i \in 1..Len(ck.chunks) :
                   Contains(ck.chunks[i].text, Units[unit[i]])

\* C30: once the global holds a vector retriever, a request's
\* get_retriever returns it as it is: the global stays set, nothing is
\* constructed, built or loaded, and the retriever's index and chunks and
\* the files are unchanged.
C30_OneRetriever ==
    [][retriever = "RAGRetriever" =>
           /\ retriever' = "RAGRetriever"
           /\ resp'.how = "kept"
           /\ resp'.mode = "faiss"
           /\ UNCHANGED <<index, chunks, diskIndex, diskChunks>>]_vars

\* C30 witness: a /retrieve request was answered by the retriever an
\* earlier request had built
C30_Witness ==
    /\ retriever = "RAGRetriever"
    /\ resp.kind = "retrieve"
    /\ resp.how = "kept"
    /\ resp.mode = "faiss"
    /\ resp.status = 200
    /\ Len(chunks) >= 2
    /\ Len(resp.chunks) >= 1

=============================================================================
